---- MODULE Spec2Model ----
(***************************************************************************)
(* A model of trident: a small-buffer container.  A payload of type T is   *)
(* kept either inline in a buffer of NWORDS machine words or in one heap   *)
(* block whose address is kept in the first word.  Erased is the untyped   *)
(* buffer, Trident<T> the typed wrapper that owns the teardown.            *)
(*                                                                         *)
(* One payload is followed from the caller's hands through the containers  *)
(* that hold it.  The payload type T and the target's pointer width are    *)
(* inputs, chosen in Init.                                                 *)
(***************************************************************************)
EXTENDS Integers, Sequences, FiniteSets

VARIABLES
    width,    \* target_pointer_width: 32 or 64
    T,        \* the payload type: [size |-> bytes, align |-> bytes,
              \*                    kind |-> "copy" | "count" | "owning"]
    holder,   \* who owns the payload: "value" | "trident" | "erased" | "gone" | "leaked"
    val,      \* the representation of the owned T in the caller's hands (holder = "value")
    words,    \* Erased.words of the live container
    heap,     \* heap blocks: block index -> [st, val]
    frees,    \* block index -> number of times the block was deallocated
    nallocs,  \* number of heap blocks allocated so far
    drops,    \* number of times T's cleanup routine (Drop::drop) has run
    owned,    \* the resource an "owning" payload owns: [live, content]
    ub,       \* an operation had undefined behaviour (double release, wild access)
    expect,   \* the payload's logical value: as constructed, or as last written
    seen,     \* what the last borrow / copy-out / inspection observed
    hist,     \* the operations performed so far (reads excluded)
    prev,     \* the counters before the last operation of hist
    mode,     \* the storage mode the last Erased::new chose
    branch,   \* the inline-or-heap branches the last operation took
    base,     \* the address of the live container's Erased (0: no container)
    retptr    \* the pointer the last as_ptr / as_mut_ptr call returned

vars == <<width, T, holder, val, words, heap, frees, nallocs, drops, owned, ub,
          expect, seen, hist, prev, mode, branch, base, retptr>>

\* ------------------------------------------------------------------ bounds
MaxVal == 2
MaxBlocks == 2
MaxOps == 5

\* --------------------------------------------------------------- constants
NWORDS == 3

Vals == 1..MaxVal
Blocks == 1..MaxBlocks
Garbage == 0 - 1
NoObs == 0 - 2
\* the bytes of an owning payload: a handle on the resource it owns
HandleRep == MaxVal + 1
Kinds == {"copy", "count", "owning"}

\* size_of::<usize>()
WordBytes == width \div 8

SIZE_LIMIT == NWORDS * WordBytes

\* the sizes of the payload types tried: the tests' i32 and Large, and the
\* sizes around the threshold
Sizes(w) == {4, 2 * (w \div 8), NWORDS * (w \div 8) - 1, NWORDS * (w \div 8),
             NWORDS * (w \div 8) + 1, 80}

\* the alignments tried for a type of sz bytes: 1, and the largest power of
\* two up to 16 that divides sz (size_of is a multiple of align_of)
Aligns(sz) == {1} \cup {a \in {2, 4, 8, 16} :
                           sz % a = 0 /\ \A b \in {2, 4, 8, 16} : sz % b = 0 => b <= a}

\* where an Erased may be placed: #[repr(C, align(8))] on a 64-bit target and
\* align(4) on a 32-bit one make its address a multiple of the word size, no
\* more (PhantomData<T> adds no alignment to Trident<T>)
BufAddrs == {WordBytes * s : s \in {8, 9}}

NoPtr == [inl |-> FALSE, addr |-> 0]

should_inline_strict == T.size < SIZE_LIMIT

should_inline == T.size <= SIZE_LIMIT

\* Trident::<T>::should_inline
Trident_should_inline == should_inline

ModeOf(inl) == IF inl THEN "inline" ELSE "heap"

\* the address Box::into_raw yields for the k-th block, as a usize
AddrOf(k) == HandleRep + k

BlockOf(a) == a - HandleRep

\* ------------------------------------------------------------ the machine
Mem == [heap |-> heap, frees |-> frees, nallocs |-> nallocs, drops |-> drops,
        owned |-> owned, ub |-> ub]

SetMem(m) ==
    /\ heap' = m.heap
    /\ frees' = m.frees
    /\ nallocs' = m.nallocs
    /\ drops' = m.drops
    /\ owned' = m.owned
    /\ ub' = m.ub

RECURSIVE SumTo(_, _)
SumTo(f, n) == IF n = 0 THEN 0 ELSE f[n] + SumTo(f, n - 1)

NFrees(f) == SumTo(f, MaxBlocks)

LiveBlocks(h) == {k \in Blocks : h[k].st = "live"}

Counters(m) == [drops |-> m.drops, nallocs |-> m.nallocs, nfrees |-> NFrees(m.frees)]

HasDtor == T.kind # "copy"

\* T's Drop::drop on a payload whose bytes are rep
cleanup(m, rep) ==
    CASE T.kind = "copy" -> m
      [] T.kind = "count" -> [m EXCEPT !.drops = @ + 1]
      [] T.kind = "owning" ->
            IF rep = HandleRep /\ m.owned.live
            THEN [m EXCEPT !.drops = @ + 1, !.owned.live = FALSE]
            ELSE [m EXCEPT !.drops = @ + 1, !.ub = TRUE]

\* alloc::dealloc of the block at address a
dealloc(m, a) ==
    LET k == BlockOf(a) IN
    IF k \in Blocks
    THEN [m EXCEPT !.frees[k] = @ + 1,
                   !.heap[k].st = "freed",
                   !.ub = @ \/ m.heap[k].st # "live"]
    ELSE [m EXCEPT !.ub = TRUE]

as_ptr_strict(w) ==
    IF should_inline_strict THEN [inl |-> TRUE, addr |-> base]
    ELSE [inl |-> FALSE, addr |-> w[1]]

\* Erased::as_ptr::<T>: the buffer itself, or the address in its first word
as_ptr(w) ==
    IF should_inline THEN [inl |-> TRUE, addr |-> base]
    ELSE [inl |-> FALSE, addr |-> w[1]]

\* Erased::as_mut_ptr::<T>
as_mut_ptr(w) ==
    IF should_inline THEN [inl |-> TRUE, addr |-> base]
    ELSE [inl |-> FALSE, addr |-> w[1]]

\* *p
Load(m, w, p) ==
    IF p.inl THEN w[1]
    ELSE IF BlockOf(p.addr) \in Blocks /\ m.heap[BlockOf(p.addr)].st = "live"
         THEN m.heap[BlockOf(p.addr)].val
         ELSE Garbage

\* *p = x
Store(m, w, p, x) ==
    IF p.inl THEN [m |-> m, words |-> [w EXCEPT ![1] = x]]
    ELSE IF BlockOf(p.addr) \in Blocks /\ m.heap[BlockOf(p.addr)].st = "live"
         THEN [m |-> [m EXCEPT !.heap[BlockOf(p.addr)].val = x], words |-> w]
         ELSE [m |-> [m EXCEPT !.ub = TRUE], words |-> w]

ZeroWords == [i \in 1..NWORDS |-> 0]

Erased_new_no_forget(m, t) ==
    IF should_inline
    THEN LET r == Store(m, ZeroWords, as_mut_ptr(ZeroWords), t) IN
         [m |-> cleanup(r.m, t), words |-> r.words]
    ELSE LET k == m.nallocs + 1 IN
         [m |-> [m EXCEPT !.nallocs = k, !.heap[k] = [st |-> "live", val |-> t]],
          words |-> [ZeroWords EXCEPT ![1] = AddrOf(k)]]

Erased_new_boxed(m, t) ==
    LET k == m.nallocs + 1 IN
    IF k \in Blocks
    THEN [m |-> [m EXCEPT !.nallocs = k, !.heap[k] = [st |-> "live", val |-> t]],
          words |-> [ZeroWords EXCEPT ![1] = AddrOf(k)]]
    ELSE Store(m, ZeroWords, as_mut_ptr(ZeroWords), t)

\* Erased::new(t)
Erased_new(m, t) ==
    IF should_inline
    THEN Store(m, ZeroWords, as_mut_ptr(ZeroWords), t)
    ELSE LET k == m.nallocs + 1 IN
         [m |-> [m EXCEPT !.nallocs = k, !.heap[k] = [st |-> "live", val |-> t]],
          words |-> [ZeroWords EXCEPT ![1] = AddrOf(k)]]

Trident_drop_dealloc_only(m, w) ==
    LET ptr == as_mut_ptr(w) IN
    IF Trident_should_inline
    THEN cleanup(m, Load(m, w, ptr))
    ELSE dealloc(m, ptr.addr)

\* <Trident<T> as Drop>::drop
Trident_drop(m, w) ==
    LET ptr == as_mut_ptr(w) IN
    IF Trident_should_inline
    THEN cleanup(m, Load(m, w, ptr))
    ELSE dealloc(cleanup(m, Load(m, w, ptr)), ptr.addr)

drop_container_any(m, w, container) == Trident_drop(m, w)

\* the container parameter of into::into_inner going out of scope: Trident
\* has a Drop impl, Erased has none
drop_container(m, w, container) ==
    IF container = "trident" THEN Trident_drop(m, w) ELSE m

into_inner_no_forget(m, w, ptr, container) ==
    LET t == Load(m, w, ptr) IN
    IF ~should_inline
    THEN [m |-> drop_container(dealloc(m, ptr.addr), w, container), t |-> t]
    ELSE [m |-> drop_container(m, w, container), t |-> t]

\* into::into_inner(ptr, container)
into_inner(m, w, ptr, container) ==
    LET t == Load(m, w, ptr) IN
    IF ~should_inline
    THEN [m |-> dealloc(m, ptr.addr), t |-> t]
    ELSE [m |-> drop_container(m, w, container), t |-> t]

\* what reading a T whose bytes are rep yields
Observe(m, rep) ==
    IF T.kind = "owning"
    THEN IF rep = HandleRep /\ m.owned.live THEN {m.owned.content}
         ELSE Vals \cup {Garbage}
    ELSE {rep}

\* ------------------------------------------------------------------ Init
Init ==
    /\ width \in {32, 64}
    /\ T \in {t \in [size : Sizes(width), align : {1, 2, 4, 8, 16}, kind : Kinds] :
                  t.align \in Aligns(t.size)}
    /\ holder = "value"
    /\ expect \in Vals
    /\ val = IF T.kind = "owning" THEN HandleRep ELSE expect
    /\ owned = [live |-> T.kind = "owning", content |-> IF T.kind = "owning" THEN expect ELSE 0]
    /\ words = ZeroWords
    /\ heap = [k \in Blocks |-> [st |-> "unused", val |-> 0]]
    /\ frees = [k \in Blocks |-> 0]
    /\ nallocs = 0
    /\ drops = 0
    /\ ub = FALSE
    /\ seen = NoObs
    /\ hist = <<>>
    /\ prev = [drops |-> 0, nallocs |-> 0, nfrees |-> 0]
    /\ mode = "none"
    /\ branch = {}
    /\ base = 0
    /\ retptr = NoPtr

\* bookkeeping of an operation named op
Step(op) ==
    /\ Len(hist) < MaxOps
    /\ hist' = Append(hist, op)
    /\ prev' = Counters(Mem)
    /\ seen' = NoObs
    /\ retptr' = NoPtr

CanAlloc == should_inline \/ nallocs < MaxBlocks

\* a field of the payload assigned through a &mut T at p
MutateAt(m, w, p, x) ==
    IF T.kind = "owning"
    THEN IF Load(m, w, p) = HandleRep /\ m.owned.live
         THEN [m |-> [m EXCEPT !.owned.content = x], words |-> w]
         ELSE [m |-> [m EXCEPT !.ub = TRUE], words |-> w]
    ELSE Store(m, w, p, x)

\* ------------------------------------------------------------ operations
\* Trident::new(t)
Trident_new ==
    /\ holder = "value"
    /\ CanAlloc
    /\ Step("Trident::new")
    /\ LET r == Erased_new(Mem, val) IN
        /\ SetMem(r.m)
        /\ words' = r.words
        /\ mode' = ModeOf(r.m.nallocs = nallocs)
    /\ branch' = {ModeOf(should_inline)}
    /\ holder' = "trident"
    /\ val' = 0
    /\ base' \in BufAddrs
    /\ UNCHANGED <<width, T, expect>>

\* Erased::new(t), called by the client
Erased_new_op ==
    /\ holder = "value"
    /\ CanAlloc
    /\ Step("Erased::new")
    /\ LET r == Erased_new(Mem, val) IN
        /\ SetMem(r.m)
        /\ words' = r.words
        /\ mode' = ModeOf(r.m.nallocs = nallocs)
    /\ branch' = {ModeOf(should_inline)}
    /\ holder' = "erased"
    /\ val' = 0
    /\ base' \in BufAddrs
    /\ UNCHANGED <<width, T, expect>>

\* the caller reads the T it owns
Look ==
    /\ holder = "value"
    /\ \E x \in Observe(Mem, val) : seen' = x
    /\ UNCHANGED <<width, T, holder, val, words, heap, frees, nallocs, drops, owned,
                   ub, expect, hist, prev, mode, branch, base, retptr>>

Borrow_by_value(c) ==
    /\ holder = c
    /\ \E x \in Observe(Mem, Load(Mem, words, as_ptr(words))) : seen' = x
    /\ SetMem(cleanup(Mem, Load(Mem, words, as_ptr(words))))
    /\ branch' = {ModeOf(as_ptr(words).inl)}
    /\ UNCHANGED <<width, T, holder, val, words, expect, hist, prev, mode, base, retptr>>

\* as_ref of the container c, read by the caller
Borrow(c) ==
    /\ holder = c
    /\ \E x \in Observe(Mem, Load(Mem, words, as_ptr(words))) : seen' = x
    /\ branch' = {ModeOf(as_ptr(words).inl)}
    /\ UNCHANGED <<width, T, holder, val, words, heap, frees, nallocs, drops, owned,
                   ub, expect, hist, prev, mode, base, retptr>>

\* Trident::as_ref
Trident_as_ref == Borrow("trident")

\* Erased::as_ref::<T>
Erased_as_ref == Borrow("erased")

\* get of the container c: T is Copy, so it has no Drop
CopyOut(c) ==
    /\ holder = c
    /\ T.kind = "copy"
    /\ seen' = Load(Mem, words, as_ptr(words))
    /\ branch' = {ModeOf(as_ptr(words).inl)}
    /\ UNCHANGED <<width, T, holder, val, words, heap, frees, nallocs, drops, owned,
                   ub, expect, hist, prev, mode, base, retptr>>

\* as_ptr of the container c: the pointer is handed to the caller
PtrOf(c) ==
    /\ holder = c
    /\ retptr' = as_ptr(words)
    /\ branch' = {ModeOf(as_ptr(words).inl)}
    /\ UNCHANGED <<width, T, holder, val, words, heap, frees, nallocs, drops, owned,
                   ub, expect, seen, hist, prev, mode, base>>

\* Trident::as_ptr
Trident_as_ptr == PtrOf("trident")

\* Erased::as_ptr::<T>
Erased_as_ptr == PtrOf("erased")

\* as_mut_ptr of the container c: the pointer is handed to the caller
MutPtrOf(c) ==
    /\ holder = c
    /\ retptr' = as_mut_ptr(words)
    /\ branch' = {ModeOf(as_mut_ptr(words).inl)}
    /\ UNCHANGED <<width, T, holder, val, words, heap, frees, nallocs, drops, owned,
                   ub, expect, seen, hist, prev, mode, base>>

\* Trident::as_mut_ptr
Trident_as_mut_ptr == MutPtrOf("trident")

\* Erased::as_mut_ptr::<T>
Erased_as_mut_ptr == MutPtrOf("erased")

\* Trident::get
Trident_get == CopyOut("trident")

\* Erased::get::<T>
Erased_get == CopyOut("erased")

\* a write of x through as_mut_ref of the container c
WriteTo(c, x) ==
    /\ holder = c
    /\ Step("write")
    /\ LET r == MutateAt(Mem, words, as_mut_ptr(words), x) IN
        /\ SetMem(r.m)
        /\ words' = r.words
    /\ branch' = {ModeOf(as_mut_ptr(words).inl)}
    /\ expect' = x
    /\ UNCHANGED <<width, T, holder, val, mode, base>>

\* Trident::as_mut_ref, written through
Trident_write == \E x \in Vals : WriteTo("trident", x)

\* Erased::as_mut_ref::<T>, written through
Erased_write == \E x \in Vals : WriteTo("erased", x)

\* into_inner of the container c: into::into_inner(self.as_mut_ptr(), self).
\* In the inline mode the pointer is to the buffer of the moved-from self,
\* which holds the same bytes as the container that was moved into the call.
Extract(c, op) ==
    /\ holder = c
    /\ Step(op)
    /\ LET r == into_inner(Mem, words, as_mut_ptr(words), c) IN
        /\ SetMem(r.m)
        /\ val' = r.t
    /\ branch' = {ModeOf(as_mut_ptr(words).inl), ModeOf(should_inline)}
    /\ words' = ZeroWords
    /\ holder' = "value"
    /\ base' = 0
    /\ UNCHANGED <<width, T, expect, mode>>

\* Trident::into_inner
Trident_into_inner == Extract("trident", "Trident::into_inner")

\* Erased::into_inner::<T>
Erased_into_inner == Extract("erased", "Erased::into_inner")

\* Trident::into_erased: Erased::new(self.into_inner())
Trident_into_erased ==
    /\ holder = "trident"
    /\ CanAlloc
    /\ Step("into_erased")
    /\ LET r1 == into_inner(Mem, words, as_mut_ptr(words), "trident")
           r2 == Erased_new(r1.m, r1.t) IN
        /\ SetMem(r2.m)
        /\ words' = r2.words
        /\ mode' = ModeOf(r2.m.nallocs = r1.m.nallocs)
    /\ branch' = {ModeOf(as_mut_ptr(words).inl), ModeOf(should_inline)}
    /\ holder' = "erased"
    /\ base' \in BufAddrs
    /\ UNCHANGED <<width, T, val, expect>>

\* Erased::into_trident::<T>: Trident::from_erased(self)
Erased_into_trident ==
    /\ holder = "erased"
    /\ Step("into_trident")
    /\ holder' = "trident"
    /\ base' \in BufAddrs
    /\ UNCHANGED <<width, T, val, words, heap, frees, nallocs, drops, owned, ub,
                   expect, mode, branch>>

\* the Trident goes out of scope
Trident_teardown ==
    /\ holder = "trident"
    /\ Step("drop")
    /\ SetMem(Trident_drop(Mem, words))
    /\ branch' = {ModeOf(as_mut_ptr(words).inl), ModeOf(Trident_should_inline)}
    /\ words' = ZeroWords
    /\ holder' = "gone"
    /\ base' = 0
    /\ UNCHANGED <<width, T, val, expect, mode>>

\* the caller's owned T goes out of scope
Value_drop ==
    /\ holder = "value"
    /\ Step("drop_value")
    /\ SetMem(cleanup(Mem, val))
    /\ holder' = "gone"
    /\ val' = 0
    /\ UNCHANGED <<width, T, words, expect, mode, branch, base>>

Erased_discard_drops ==
    /\ holder = "erased"
    /\ Step("discard")
    /\ SetMem(Trident_drop(Mem, words))
    /\ holder' = "leaked"
    /\ base' = 0
    /\ UNCHANGED <<width, T, val, words, expect, mode, branch>>

\* the Erased goes out of scope: it has no Drop impl
Erased_discard ==
    /\ holder = "erased"
    /\ Step("discard")
    /\ holder' = "leaked"
    /\ base' = 0
    /\ UNCHANGED <<width, T, val, words, heap, frees, nallocs, drops, owned, ub,
                   expect, mode, branch>>

Next ==
    \/ Trident_new
    \/ Erased_new_op
    \/ Look
    \/ Trident_as_ref
    \/ Erased_as_ref
    \/ Trident_as_ptr
    \/ Erased_as_ptr
    \/ Trident_as_mut_ptr
    \/ Erased_as_mut_ptr
    \/ Trident_get
    \/ Erased_get
    \/ Trident_write
    \/ Erased_write
    \/ Trident_into_inner
    \/ Erased_into_inner
    \/ Trident_into_erased
    \/ Erased_into_trident
    \/ Trident_teardown
    \/ Value_drop
    \/ Erased_discard

Spec == Init /\ [][Next]_vars

LastOp == IF hist = <<>> THEN "none" ELSE hist[Len(hist)]

TypeOK ==
    /\ width \in {32, 64}
    /\ T.size \in Sizes(width) /\ T.kind \in Kinds /\ T.align \in Aligns(T.size)
    /\ base \in BufAddrs \cup {0}
    /\ holder \in {"value", "trident", "erased", "gone", "leaked"}
    /\ nallocs \in 0..MaxBlocks
    /\ Len(hist) <= MaxOps

\* the bytes of a payload whose logical value is x
RepOf(x) == IF T.kind = "owning" THEN HandleRep ELSE x

AllFreedOnce == \A k \in Blocks : frees[k] = IF k <= nallocs THEN 1 ELSE 0

\* ---------------------------------------------------------------- claims

\* C1: Trident::new runs the cleanup routine 0 times, and the teardown of a
\* Trident<T> whose T has a cleanup routine runs it exactly once, so that
\* new followed by teardown leaves the counter at exactly 1, inline or heap.
C1_ExactlyOneCleanup ==
    /\ (LastOp = "Trident::new" => drops = prev.drops)
    /\ (HasDtor /\ LastOp = "drop" => drops = prev.drops + 1)
    /\ (HasDtor /\ hist = <<"Trident::new", "drop">> => drops = 1)

C1_Witness ==
    /\ T.kind = "count"
    /\ T.size > SIZE_LIMIT
    /\ hist = <<"Trident::new", "drop">>
    /\ drops = 1

\* C2: Trident::into_inner does not run the cleanup routine, and after the
\* caller drops the returned value the routine has run exactly once.
C2_IntoInnerSuppressesCleanup ==
    /\ (LastOp = "Trident::into_inner" => drops = prev.drops)
    /\ (HasDtor /\ hist = <<"Trident::new", "Trident::into_inner", "drop_value">>
            => drops = 1)

\* C3: for a heap-stored payload no block is freed twice, at most one block
\* is live at any time, and once the payload has been extracted or torn down
\* every block allocated for it has been freed exactly once.
C3_HeapBlockFreedOnce ==
    (T.size > SIZE_LIMIT /\ holder # "leaked") =>
        /\ \A k \in Blocks : frees[k] <= 1
        /\ Cardinality(LiveBlocks(heap)) <= 1
        /\ (holder \in {"value", "gone"} => AllFreedOnce /\ LiveBlocks(heap) = {})

C3_Witness ==
    /\ T.size > SIZE_LIMIT
    /\ hist = <<"Trident::new", "into_erased", "into_trident", "drop">>
    /\ nallocs = 2
    /\ AllFreedOnce

\* C4: should_inline is size_of(T) <= SIZE_LIMIT, SIZE_LIMIT is 3 words (12
\* bytes on a 32-bit and 24 on a 64-bit target), and new stores the payload
\* in the buffer exactly when it fits, in one fresh heap block otherwise.
C4_InlineIffFits ==
    LET lim == IF width = 64 THEN 24 ELSE 12 IN
    /\ SIZE_LIMIT = lim
    /\ should_inline <=> (T.size <= lim)
    /\ (LastOp \in {"Trident::new", "Erased::new"} =>
            IF T.size <= lim
            THEN /\ nallocs = prev.nallocs
                 /\ LiveBlocks(heap) = {}
                 /\ words[1] = RepOf(expect)
            ELSE /\ nallocs = prev.nallocs + 1
                 /\ LiveBlocks(heap) = {nallocs}
                 /\ words[1] = AddrOf(nallocs)
                 /\ heap[nallocs].val = RepOf(expect))

C4_Witness ==
    /\ T.size = SIZE_LIMIT + 1
    /\ LastOp = "Trident::new"
    /\ LiveBlocks(heap) = {1}

C4_WitnessInline ==
    /\ T.size = SIZE_LIMIT
    /\ LastOp = "Trident::new"
    /\ nallocs = 0

\* C5: the value Trident::new(v).into_inner() returns reads as v.
C5_RoundTrip ==
    (hist = <<"Trident::new", "Trident::into_inner">> /\ seen # NoObs) => seen = expect

\* C6: Trident::new(v).into_erased().into_trident::<T>() is a container whose
\* as_ref(), and whose into_inner(), reads as v.
C6_EraseRoundTrip ==
    (/\ hist \in {<<"Trident::new", "into_erased", "into_trident">>,
                  <<"Trident::new", "into_erased", "into_trident", "Trident::into_inner">>}
     /\ seen # NoObs) => seen = expect

\* C7: Trident::into_erased does not run the cleanup routine, and the cycle
\* new, into_erased, into_trident, teardown runs it exactly once.
C7_EraseRunsNoCleanup ==
    /\ (LastOp = "into_erased" => drops = prev.drops)
    /\ (HasDtor /\ hist = <<"Trident::new", "into_erased", "into_trident", "drop">>
            => drops = 1)

\* C8: after w is written through as_mut_ref, as_ref and get observe w, and
\* a later into_inner returns w.
C8_MutationVisible ==
    (/\ hist \in {<<"Trident::new", "write">>,
                  <<"Trident::new", "write", "Trident::into_inner">>}
     /\ seen # NoObs) => seen = expect

\* C9: Erased::into_inner returns the payload without running the cleanup
\* routine; it frees the block exactly once in the heap mode and frees
\* nothing in the inline mode; Erased::new(v).into_inner() followed by the
\* drop of the returned value runs the cleanup routine exactly once.
C9_ErasedIntoInner ==
    /\ (LastOp = "Erased::into_inner" =>
            /\ drops = prev.drops
            /\ val = RepOf(expect)
            /\ nallocs = prev.nallocs
            /\ IF T.size <= SIZE_LIMIT
               THEN NFrees(frees) = prev.nfrees
               ELSE /\ NFrees(frees) = prev.nfrees + 1
                    /\ AllFreedOnce
                    /\ LiveBlocks(heap) = {})
    /\ (HasDtor /\ hist = <<"Erased::new", "Erased::into_inner", "drop_value">>
            => drops = 1)

C9_Witness ==
    /\ T.kind = "count"
    /\ T.size > SIZE_LIMIT
    /\ hist = <<"Erased::new", "Erased::into_inner", "drop_value">>
    /\ drops = 1
    /\ NFrees(frees) = 1

\* C10: the storage mode Erased::new chose is the one size_of(T) decides,
\* every later operation takes that same branch, and the payload of a live
\* container is in a heap block exactly when that mode is heap.
C10_ModeFixed ==
    mode # "none" =>
        /\ mode = ModeOf(T.size <= SIZE_LIMIT)
        /\ branch \subseteq {mode}
        /\ (holder \in {"trident", "erased"} =>
                (mode = "heap" <=> LiveBlocks(heap) # {}))

C10_Witness ==
    /\ T.size = SIZE_LIMIT
    /\ hist = <<"Trident::new", "into_erased", "into_trident">>
    /\ seen = expect
    /\ mode = "inline"
    /\ branch = {"inline"}

\* C11: Erased::new(v) runs no cleanup routine and frees nothing; in the
\* inline mode it allocates nothing and the buffer holds v's bytes, in the
\* heap mode it allocates exactly one block, which holds v, and the first
\* word of the buffer is that block's address.
C11_ErasedNew ==
    LastOp = "Erased::new" =>
        /\ drops = prev.drops
        /\ NFrees(frees) = prev.nfrees
        /\ holder = "erased"
        /\ IF T.size <= SIZE_LIMIT
           THEN /\ nallocs = prev.nallocs
                /\ words = <<RepOf(expect), 0, 0>>
           ELSE /\ nallocs = prev.nallocs + 1
                /\ heap[nallocs] = [st |-> "live", val |-> RepOf(expect)]
                /\ words = <<AddrOf(nallocs), 0, 0>>

C11_Witness ==
    /\ T.kind = "count"
    /\ T.size > SIZE_LIMIT
    /\ hist = <<"Erased::new">>
    /\ nallocs = 1
    /\ heap[1].st = "live"
    /\ drops = 0

C11_WitnessInline ==
    /\ T.kind = "count"
    /\ T.size <= SIZE_LIMIT
    /\ hist = <<"Erased::new">>
    /\ words[1] = expect
    /\ drops = 0

\* C12: an Erased that goes out of scope unconsumed has no teardown: the
\* cleanup count, the allocations and the frees are as before, and in the
\* heap mode its block stays live from then on.
C12_DiscardLeaks ==
    /\ (LastOp = "discard" =>
            /\ drops = prev.drops
            /\ nallocs = prev.nallocs
            /\ NFrees(frees) = prev.nfrees)
    /\ (holder = "leaked" =>
            /\ LastOp = "discard"
            /\ LiveBlocks(heap) = IF T.size <= SIZE_LIMIT THEN {} ELSE {nallocs}
            /\ (T.size > SIZE_LIMIT => frees[nallocs] = 0))

C12_Witness ==
    /\ T.kind = "count"
    /\ T.size > SIZE_LIMIT
    /\ hist = <<"Erased::new", "discard">>
    /\ LiveBlocks(heap) = {1}
    /\ drops = 0

\* C14: for an inline-eligible payload type no heap block is ever allocated
\* or freed.
C14_InlineNeverAllocates ==
    T.size <= SIZE_LIMIT =>
        /\ nallocs = 0
        /\ NFrees(frees) = 0
        /\ \A k \in Blocks : heap[k].st = "unused"

C14_Witness ==
    /\ T.size = SIZE_LIMIT
    /\ hist = <<"Trident::new", "write", "into_erased", "into_trident", "drop">>
    /\ nallocs = 0
    /\ NFrees(frees) = 0

\* C13: a borrow or copy-out (as_ptr, as_ref, as_mut_ptr, get) changes
\* neither the cleanup count, the heap blocks, the storage mode, the
\* lifecycle state nor the payload; a write through as_mut_ref changes the
\* payload only.
C13_BorrowsHaveNoSideEffects ==
    [][/\ (hist' = hist =>
              UNCHANGED <<drops, heap, frees, nallocs, owned, ub, mode, holder,
                          words, val, expect, base>>)
       /\ ((hist' # hist /\ LastOp' = "write") =>
              /\ UNCHANGED <<drops, frees, nallocs, mode, holder, base>>
              /\ LiveBlocks(heap') = LiveBlocks(heap))]_vars

C13_Witness ==
    /\ T.kind = "count"
    /\ T.size > SIZE_LIMIT
    /\ holder = "trident"
    /\ hist = <<"Trident::new", "write">>
    /\ seen = expect
    /\ retptr = [inl |-> FALSE, addr |-> AddrOf(1)]
    /\ drops = 0
    /\ LiveBlocks(heap) = {1}

\* C15: for an inline-eligible T the pointer as_ptr / as_mut_ptr returns is
\* a multiple of T's alignment.
C15_InlinePointerAligned ==
    (retptr # NoPtr /\ T.size <= SIZE_LIMIT) => retptr.addr % T.align = 0

====
